---- MODULE Spec2Model ----
(***************************************************************************)
(* Model of examples/skills/dependency-analyzer/scripts/circular_deps.py:  *)
(* the import extractor and resolver, the graph builder, the depth-first   *)
(* cycle finder and the normalize/dedup step of main.                      *)
(***************************************************************************)
EXTENDS Integers, Sequences, FiniteSets, TLC

(***************************************************************************)
(* Bounds of the model.                                                    *)
(***************************************************************************)
\* largest number of edges of a graph handed to find_cycles
MaxEdges == 3

\* largest number of cycles in a list handed to the dedup step alone
MaxCycles == 2

\* largest number of optional entries of a filesystem handed to the builder
MaxEntries == 2

\* largest number of import statements in the scanned file
MaxImports == 1

\* largest number of import statements in the file a.ts of a project tree
MaxStmts == 2

\* The nodes of a graph, in the order of their path strings (key=str).
NodeOrder == <<"A", "B", "C", "D">>

Nodes == {NodeOrder[i] : i \in 1..Len(NodeOrder)}

VARIABLES
    pc,             \* position in main: "scan", "imports", "find", "dfs",
                    \* "dedup", "done"
    graph,          \* dict node -> set of nodes
    raised,         \* an exception left the program
    \* build_dependency_graph
    fs,             \* the filesystem: path -> "file" or "dir"
    content,        \* the import statements in the text of each file
    root,           \* the project root (main.path)
    exts,           \* main.extensions
    pending,        \* files find_files has still to yield
    cur_file,       \* file_path of the current iteration
    imports,        \* imports of cur_file not yet resolved
    last_res,       \* the last call of resolve_import and what it returned
    \* find_cycles
    todo,           \* keys the loop `for node in graph` has not reached yet
    visited,        \* find_cycles.visited
    rec_stack,      \* find_cycles.rec_stack
    path,           \* find_cycles.path
    stack,          \* call stack of dfs: frames [node, rest], rest = neighbors
                    \* the loop `for neighbor in ...` has not reached yet
    cycles,         \* find_cycles.cycles
    entered,        \* number of calls dfs(node), per node
    roots,          \* the nodes the loop of line 135 called dfs on, in order
    \* main
    unique_cycles,  \* main.unique_cycles
    seen,           \* main.seen
    di,             \* number of cycles the dedup loop has processed
    exit_code,      \* argument of sys.exit, -1 before
    \* a second run of the program on the same input
    run,            \* 1 in the first run, 2 in the second
    first_result,   \* unique_cycles of the first run
    first_roots     \* roots of the first run (the order of the dict's keys)

bvars == <<fs, content, root, exts, pending, cur_file, imports, last_res>>

fvars == <<todo, visited, rec_stack, path, stack, cycles, entered, roots>>

dvars == <<unique_cycles, seen, di, exit_code>>

rvars == <<run, first_result, first_roots>>

vars == <<pc, graph, raised, bvars, fvars, dvars, rvars>>

(***************************************************************************)
(* Helpers: Python list operations.                                        *)
(***************************************************************************)
Range(s) == {s[i] : i \in 1..Len(s)}

\* list.index(x): position (1-based) of the first occurrence, 0 when absent
\* (Python raises ValueError there; the callers model the raise).
ListIndex(s, x) ==
    IF \E i \in 1..Len(s) : s[i] = x
    THEN CHOOSE i \in 1..Len(s) : s[i] = x /\ \A j \in 1..(i-1) : s[j] # x
    ELSE 0

\* graph.get(node, set())
Neighbors(g, n) == IF n \in DOMAIN g THEN g[n] ELSE {}

\* faulty variant: the defaultdict is subscripted, which inserts the key
GraphAfterGet_Subscript(g, n) == [m \in DOMAIN g \cup {n} |-> Neighbors(g, m)]

\* the dict after graph.get(node, set()): get inserts nothing
GraphAfterGet(g, n) == g

\* every node of a graph: its keys and its edge targets
NodesOf(g) == DOMAIN g \cup UNION {g[n] : n \in DOMAIN g}

(***************************************************************************)
(* Paths.  A string is a sequence of tokens: "/", "." and "@" are single   *)
(* characters, every other token is an unbroken run of name characters.    *)
(* A Path is the sequence of its components below the anchor "/", each     *)
(* component a string without "/".                                         *)
(***************************************************************************)
\* str.startswith(prefix)
StartsWith(s, prefix) ==
    Len(s) >= Len(prefix) /\ SubSeq(s, 1, Len(prefix)) = prefix

\* str.endswith(suffix)
EndsWith(s, suffix) ==
    Len(s) >= Len(suffix) /\ SubSeq(s, Len(s) - Len(suffix) + 1, Len(s)) = suffix

RECURSIVE SplitAt(_, _, _)
\* the pieces of s between its "/" characters, empty pieces dropped
SplitAt(s, cur, acc) ==
    IF s = <<>> THEN (IF cur = <<>> THEN acc ELSE Append(acc, cur))
    ELSE IF Head(s) = "/"
         THEN SplitAt(Tail(s), <<>>, IF cur = <<>> THEN acc ELSE Append(acc, cur))
         ELSE SplitAt(Tail(s), Append(cur, Head(s)), acc)

IsNotDot(c) == c # <<".">>

\* Path(s).parts below the anchor: pathlib drops "." components and empty
\* ones and keeps ".."
Parts(s) == SelectSeq(SplitAt(s, <<>>, <<>>), IsNotDot)

RECURSIVE StrOf(_)
StrOf(p) == IF p = <<>> THEN <<>> ELSE <<"/">> \o Head(p) \o StrOf(Tail(p))

\* str(path) of an absolute path
PathStr(p) == IF p = <<>> THEN <<"/">> ELSE StrOf(p)

\* The tokens of the strings of the model in the order of Python's string
\* comparison (by code point: "." < "/" < "@" < the lowercase letters, a
\* prefix before its extensions).
TokenOrder ==
    <<".", "/", "@", "a", "b", "build", "c", "d", "dist", "index", "js", "jsx",
      "l", "m", "o", "org", "p", "py", "src", "ts", "tsx", "utils", "x", "y", "z">>

TokenKey(t) == CHOOSE i \in 1..Len(TokenOrder) : TokenOrder[i] = t

RECURSIVE StrLess(_, _)
\* s < t on strings.  A token is a maximal run of letters, so the
\* character after it is a separator or the end, and the comparison of the
\* tokens decides as the comparison of the characters does.
StrLess(s, t) ==
    IF t = <<>> THEN FALSE
    ELSE IF s = <<>> THEN TRUE
    ELSE IF Head(s) = Head(t) THEN StrLess(Tail(s), Tail(t))
    ELSE TokenKey(Head(s)) < TokenKey(Head(t))

\* key=str on a path among the paths of S: the number of them with a
\* smaller string
PathKey(n, S) == Cardinality({m \in S : StrLess(PathStr(m), PathStr(n))})

\* key=str on a node.  The nodes of a graph handed to find_cycles directly
\* are names, ranked by NodeOrder; the nodes of a graph built from a
\* project (root is set) are paths, ranked by their strings.
StrKey(n) ==
    IF root = <<>>
    THEN CHOOSE i \in 1..Len(NodeOrder) : NodeOrder[i] = n
    ELSE PathKey(n, NodesOf(graph))

\* min(s, key=str): the first element with the smallest key
MinByStr(s) ==
    LET i == CHOOSE k \in 1..Len(s) :
                 /\ \A j \in 1..Len(s) : StrKey(s[k]) <= StrKey(s[j])
                 /\ \A j \in 1..(k-1) : StrKey(s[j]) > StrKey(s[k])
    IN s[i]

\* path.parent
Parent(p) == SubSeq(p, 1, Len(p) - 1)

\* `dir / s`: an absolute s replaces dir
PathJoin(dir, s) == IF StartsWith(s, <<"/">>) THEN Parts(s) ELSE dir \o Parts(s)

RECURSIVE Collapse(_, _)
Collapse(p, acc) ==
    IF p = <<>> THEN acc
    ELSE IF Head(p) = <<".", ".">>
         THEN Collapse(Tail(p), SubSeq(acc, 1, Len(acc) - 1))
         ELSE Collapse(Tail(p), Append(acc, Head(p)))

\* The symbolic links of the projects of this model and what they point to:
\* an entry of kind "link" named b.ts points to c.ts beside it, any other
\* one to itself (a link that never resolves).
LinkTargetOf(p) ==
    IF p[Len(p)] = <<"b", ".", "ts">> THEN Parent(p) \o << <<"c", ".", "ts">> >>
    ELSE p

\* what a walk along a path returns when it meets a link a second time
LoopPath == << <<"Loop">> >>

RECURSIVE Walk(_, _, _, _)
\* os.path.realpath: the components of rest are appended to done one by
\* one, ".." drops the last one, a symbolic link is replaced by its target
Walk(f, done, rest, links) ==
    IF rest = <<>> THEN done
    ELSE IF Head(rest) = <<".", ".">>
         THEN Walk(f, Parent(done), Tail(rest), links)
         ELSE LET q == Append(done, Head(rest))
              IN IF q \in DOMAIN f /\ f[q] = "link"
                 THEN IF q \in links THEN LoopPath
                      ELSE Walk(f, <<>>, LinkTargetOf(q) \o Tail(rest),
                                links \cup {q})
                 ELSE Walk(f, q, Tail(rest), links)

\* path.resolve() meets a symbolic link loop: RuntimeError up to Python
\* 3.12, no exception from Python 3.13 on
ResolveLoops(f, p) == Walk(f, <<>>, p, {}) = LoopPath

\* path.resolve() when it returns: symbolic links resolved and ".."
\* collapsed; after a loop the path with its links left in
Resolve(f, p) ==
    IF ResolveLoops(f, p) THEN Collapse(p, <<>>) ELSE Walk(f, <<>>, p, {})

\* path.exists() and path.is_file(): both follow symbolic links and are
\* False on a loop; a file without read permission is a regular file
Exists(f, p) == ~ResolveLoops(f, p) /\ Walk(f, <<>>, p, {}) \in DOMAIN f

IsFile(f, p) == Exists(f, p) /\ f[Walk(f, <<>>, p, {})] \in {"file", "locked"}

\* read_text succeeds: a regular file the process may read
Readable(f, p) == Exists(f, p) /\ f[Walk(f, <<>>, p, {})] = "file"

\* the return value None of resolve_import: no path of a filesystem
None == << <<"None">> >>

(***************************************************************************)
(* extract_imports                                                         *)
(***************************************************************************)
\* IMPORT_PATTERNS (lines 16-33): the patterns of a language, in table
\* order, each named by the statement it matches
PatternsOf(lang) ==
    IF lang = "py" THEN <<"py_from", "py_import">>
    ELSE IF lang \in {"ts", "js"}
         THEN <<"import_from", "dynamic_import", "require", "export_from">>
         ELSE <<>>

\* re.finditer(pattern, content): the targets of the statements of the
\* text that the pattern matches, in text order
Matches(text, pattern) ==
    LET hit(stmt) == stmt.pat = pattern
        sel == SelectSeq(text, hit)
    IN [i \in 1..Len(sel) |-> sel[i].target]

RECURSIVE ExtractFrom(_, _, _)
ExtractFrom(text, patterns, i) ==
    IF i > Len(patterns) THEN <<>>
    ELSE Matches(text, patterns[i]) \o ExtractFrom(text, patterns, i + 1)

\* faulty variant: the text of a file is scanned whether the read succeeded
\* or not
ExtractImports_ReadsAnyway(f, texts, file_path, lang) ==
    LET real == Walk(f, <<>>, file_path, {})
    IN IF real \notin DOMAIN texts THEN <<>>
       ELSE ExtractFrom(texts[real], PatternsOf(lang), 1)

\* lines 42-58; read_text raises on anything but a readable regular file,
\* and the exception is swallowed
ExtractImports(f, texts, file_path, lang) ==
    LET real == Walk(f, <<>>, file_path, {})
    IN IF ~Readable(f, file_path) \/ real \notin DOMAIN texts THEN <<>>
       ELSE ExtractFrom(texts[real], PatternsOf(lang), 1)

(***************************************************************************)
(* resolve_import                                                          *)
(***************************************************************************)
\* faulty variant: whatever is not aliased is joined to the importing directory
Classify_BareAsRelative(import_path) ==
    IF StartsWith(import_path, <<"@", "/">>) THEN "alias" ELSE "relative"

\* faulty variant: only aliased imports are resolved
Classify_RelativeAsExternal(import_path) ==
    IF StartsWith(import_path, <<"@", "/">>) THEN "alias" ELSE "external"

\* lines 64, 70, 72, 75: which branch an import string takes
Classify(import_path) ==
    IF ~StartsWith(import_path, <<".">>) /\ ~StartsWith(import_path, <<"@", "/">>)
    THEN "external"
    ELSE IF StartsWith(import_path, <<".">>) THEN "relative"
    ELSE IF StartsWith(import_path, <<"@", "/">>) THEN "alias"
    ELSE "external"

\* faulty variant: .js is tried before .ts
ResolveExts_JsFirst ==
    << <<>>, <<".", "js">>, <<".", "ts">>, <<".", "tsx">>, <<".", "jsx">>,
       <<"/", "index", ".", "ts">>, <<"/", "index", ".", "tsx">>,
       <<"/", "index", ".", "js">> >>

\* the list of line 79
ResolveExts ==
    << <<>>, <<".", "ts">>, <<".", "tsx">>, <<".", "js">>, <<".", "jsx">>,
       <<"/", "index", ".", "ts">>, <<"/", "index", ".", "tsx">>,
       <<"/", "index", ".", "js">> >>

\* `Path(str(resolved) + ext)` (line 80)
Candidate(resolved, ext) == Parts(PathStr(resolved) \o ext)

\* faulty variant: a candidate that exists is taken, a directory too
Accepts_AnyEntry(f, candidate) == Exists(f, candidate)

\* `candidate.exists() and candidate.is_file()` (line 81)
Accepts(f, candidate) == Exists(f, candidate) /\ IsFile(f, candidate)

RECURSIVE TryExts(_, _, _)
\* the loop of lines 79-82 from the i-th entry on, and line 84
TryExts(f, resolved, i) ==
    IF i > Len(ResolveExts) THEN None
    ELSE LET candidate == Candidate(resolved, ResolveExts[i])
         IN IF Accepts(f, candidate) THEN candidate
            ELSE TryExts(f, resolved, i + 1)

\* the path lines 71 and 74 call resolve() on
JoinedPath(import_path, from_file, project_root) ==
    LET from_dir == Parent(from_file)
    IN IF Classify(import_path) = "relative"
       THEN PathJoin(from_dir, import_path)
       ELSE PathJoin(PathJoin(project_root, <<"src">>),
                     SubSeq(import_path, 3, Len(import_path)))

\* `resolved` of lines 67-74
ResolvedBase(import_path, from_file, project_root, f) ==
    Resolve(f, JoinedPath(import_path, from_file, project_root))

\* the call of resolve() in line 71 or 74 meets a symbolic link loop
ResolveImportLoops(import_path, from_file, project_root, f) ==
    /\ Classify(import_path) # "external"
    /\ ResolveLoops(f, JoinedPath(import_path, from_file, project_root))

\* lines 61-84
ResolveImport(import_path, from_file, project_root, f) ==
    IF Classify(import_path) = "external" THEN None
    ELSE TryExts(f, ResolvedBase(import_path, from_file, project_root, f), 1)

(***************************************************************************)
(* build_dependency_graph                                                  *)
(***************************************************************************)
EmptyGraph == [n \in {} |-> {}]

\* faulty variant: the set of the file is replaced, not added to
AddEdge_Overwrite(g, a, b) ==
    [n \in DOMAIN g \cup {a} |-> IF n = a THEN {b} ELSE g[n]]

\* `graph[a].add(b)` on a defaultdict(set)
AddEdge(g, a, b) ==
    [n \in DOMAIN g \cup {a} |-> IF n = a THEN Neighbors(g, a) \cup {b} ELSE g[n]]

\* faulty variant: the whole filesystem is searched, not the tree below path
FindFiles_Anywhere(f, dir, extensions) ==
    {y \in (1..Len(extensions)) \X DOMAIN f :
        /\ Len(y[2]) > 0
        /\ EndsWith(y[2][Len(y[2])], <<".", extensions[y[1]]>>)}

\* find_files (lines 36-39): for the i-th extension every entry below path
\* whose name matches "*.<ext>", as the pair <<i, entry>>; an entry that
\* matches two of the extensions is yielded twice
FindFiles(f, dir, extensions) ==
    {y \in (1..Len(extensions)) \X DOMAIN f :
        /\ Len(y[2]) > Len(dir)
        /\ SubSeq(y[2], 1, Len(dir)) = dir
        /\ EndsWith(y[2][Len(y[2])], <<".", extensions[y[1]]>>)}

\* the names of line 95
ExcludedNames ==
    {<<"node_modules">>, <<"__pycache__">>, <<".", "git">>, <<"dist">>, <<"build">>}

\* `any(p in file_path.parts for p in [...])` (line 95)
Excluded(file_path) == \E i \in 1..Len(file_path) : file_path[i] \in ExcludedNames

\* `file_path.suffix[1:]` (line 98)
SuffixOf(file_path) ==
    LET name == file_path[Len(file_path)]
    IN IF Len(name) >= 3 /\ name[Len(name) - 1] = "." THEN name[Len(name)] ELSE ""

\* lang_map and `lang_map.get(ext, "js")` (lines 91, 99)
LangOf(ext) ==
    IF ext \in {"ts", "tsx"} THEN "ts"
    ELSE IF ext \in {"js", "jsx"} THEN "js"
    ELSE IF ext = "py" THEN "py"
    ELSE "js"

NoRes == [imp |-> <<>>, from |-> <<>>, res |-> None]

\* one iteration of `for file_path in find_files(...)` up to line 101; the
\* extensions are taken in their order, the files of one extension in any
\* order
BuildPick ==
    /\ pc = "scan" /\ ~raised
    /\ \E y \in pending : LET file_path == y[2] IN
        /\ \A z \in pending : y[1] <= z[1]
        /\ pending' = pending \ {y}
        /\ IF Excluded(file_path)
           THEN UNCHANGED <<pc, cur_file, imports>>
           ELSE /\ cur_file' = file_path
                /\ imports' = ExtractImports(fs, content, file_path,
                                             LangOf(SuffixOf(file_path)))
                /\ pc' = "imports"
    /\ UNCHANGED <<graph, raised, fs, content, root, exts, last_res, fvars,
                   dvars, rvars>>

\* one iteration of `for imp in imports:` (lines 103-106); when resolve()
\* meets a symbolic link loop it raises or not, depending on the version of
\* Python, and nothing catches the exception
BuildImport ==
    /\ pc = "imports" /\ ~raised
    /\ imports # <<>>
    /\ LET imp == Head(imports)
           resolved == ResolveImport(imp, cur_file, root, fs)
       IN \E fails \in {FALSE, ResolveImportLoops(imp, cur_file, root, fs)} :
            IF fails
            THEN /\ raised' = TRUE
                 /\ UNCHANGED <<graph, last_res>>
            ELSE /\ raised' = FALSE
                 /\ last_res' = [imp |-> imp, from |-> cur_file, res |-> resolved]
                 /\ graph' = IF resolved # None
                             THEN AddEdge(graph, cur_file, resolved)
                             ELSE graph
    /\ imports' = Tail(imports)
    /\ UNCHANGED <<pc, fs, content, root, exts, pending, cur_file,
                   fvars, dvars, rvars>>

\* the imports of the file are exhausted: on to the next file
BuildNextFile ==
    /\ pc = "imports" /\ ~raised
    /\ imports = <<>>
    /\ pc' = "scan"
    /\ UNCHANGED <<graph, raised, bvars, fvars, dvars, rvars>>

\* `return graph` (line 108) and the start of find_cycles (lines 113-116)
BuildReturn ==
    /\ pc = "scan" /\ ~raised
    /\ pending = {}
    /\ pc' = "find"
    /\ todo' = DOMAIN graph
    /\ entered' = [n \in NodesOf(graph) |-> 0]
    /\ UNCHANGED <<graph, raised, bvars, visited, rec_stack, path, stack,
                   cycles, roots, dvars, rvars>>

(***************************************************************************)
(* Graphs over Nodes: what build_dependency_graph returns is a             *)
(* defaultdict(set) with a key for exactly the nodes an edge was added     *)
(* from.                                                                   *)
(***************************************************************************)
GraphOf(E) == [n \in {e[1] : e \in E} |-> {e[2] : e \in {f \in E : f[1] = n}}]

\* the edge sets of at most n edges
EdgeSets(n) == {E \in SUBSET (Nodes \X Nodes) : Cardinality(E) <= n}

(***************************************************************************)
(* find_cycles                                                             *)
(***************************************************************************)
\* faulty variant: tests the recursion stack in place of the visited set
ShouldRecurse_OnStackOnly(neighbor, vis, rs) == neighbor \notin rs

\* `if neighbor not in visited` (line 124)
ShouldRecurse(neighbor, vis, rs) == neighbor \notin vis

\* faulty variant: every visited neighbor counts as a back edge
IsBackEdge_AnyVisited(neighbor, vis, rs) == neighbor \in vis

\* faulty variant: the test of the recursion stack is negated
IsBackEdge_Negated(neighbor, vis, rs) == neighbor \in vis /\ neighbor \notin rs

\* `elif neighbor in rec_stack` (line 126), reached when neighbor is visited
IsBackEdge(neighbor, vis, rs) == neighbor \in vis /\ neighbor \in rs

\* faulty variant: the whole path is recorded, not the slice from cycle_start
CycleFrom_WholePath(p, neighbor) == p \o <<neighbor>>

\* faulty variant: the slice starts one entry after cycle_start
CycleFrom_OffByOne(p, neighbor) ==
    SubSeq(p, ListIndex(p, neighbor) + 1, Len(p)) \o <<neighbor>>

\* `path[cycle_start:] + [neighbor]` (lines 128-129), cycle_start 1-based
CycleFrom(p, neighbor) ==
    SubSeq(p, ListIndex(p, neighbor), Len(p)) \o <<neighbor>>

\* faulty variant: the node is not removed from the recursion stack
RecStackLeave_Keeps(rs, node) == rs

\* rec_stack after `rec_stack.remove(node)` (line 133)
RecStackLeave(rs, node) == rs \ {node}

\* In a second run the dict holds its keys in the order of the first run:
\* dfs is called on the same keys in the same order.
KeyOrderAllows(node) ==
    \/ run = 1
    \/ /\ Len(roots) < Len(first_roots)
       /\ first_roots[Len(roots) + 1] = node

\* `for node in graph: if node not in visited: dfs(node)` (lines 135-137)
\* and the first statements of dfs (lines 119-121); one key per step, the
\* keys of the dict in any order
OuterCall ==
    /\ pc = "find" /\ ~raised
    /\ \E node \in todo :
        /\ node \notin visited
        /\ KeyOrderAllows(node)
        /\ todo' = todo \ {node}
        /\ visited' = visited \cup {node}
        /\ rec_stack' = rec_stack \cup {node}
        /\ path' = Append(path, node)
        /\ stack' = Append(stack, [node |-> node, rest |-> Neighbors(graph, node)])
        /\ entered' = [entered EXCEPT ![node] = @ + 1]
        /\ roots' = Append(roots, node)
        /\ graph' = GraphAfterGet(graph, node)
    /\ pc' = "dfs"
    /\ UNCHANGED <<raised, bvars, cycles, dvars, rvars>>

\* a key that is visited already when the loop of line 135 reaches it
OuterSkip ==
    /\ pc = "find" /\ ~raised
    /\ \E node \in todo :
        /\ node \in visited
        /\ todo' = todo \ {node}
    /\ UNCHANGED <<pc, graph, raised, bvars, visited, rec_stack, path, stack,
                   cycles, entered, roots, dvars, rvars>>

\* `return cycles` (line 139)
FindReturn ==
    /\ pc = "find" /\ ~raised
    /\ todo = {}
    /\ pc' = "dedup"
    /\ UNCHANGED <<graph, raised, bvars, fvars, dvars, rvars>>

Top == stack[Len(stack)]

WithRest(rest) == [stack EXCEPT ![Len(stack)].rest = rest]

\* `if neighbor not in visited: dfs(neighbor)` (lines 124-125) and the
\* first statements of the call (lines 119-121)
DfsRecurse ==
    /\ pc = "dfs" /\ ~raised
    /\ \E neighbor \in Top.rest :
        /\ ShouldRecurse(neighbor, visited, rec_stack)
        /\ visited' = visited \cup {neighbor}
        /\ rec_stack' = rec_stack \cup {neighbor}
        /\ path' = Append(path, neighbor)
        /\ stack' = Append(WithRest(Top.rest \ {neighbor}),
                           [node |-> neighbor, rest |-> Neighbors(graph, neighbor)])
        /\ entered' = [entered EXCEPT ![neighbor] = @ + 1]
        /\ graph' = GraphAfterGet(graph, neighbor)
    /\ UNCHANGED <<pc, raised, bvars, todo, cycles, roots, dvars, rvars>>

\* `elif neighbor in rec_stack:` record the cycle (lines 126-130);
\* path.index raises ValueError when neighbor is not on the path
DfsBackEdge ==
    /\ pc = "dfs" /\ ~raised
    /\ \E neighbor \in Top.rest :
        /\ ~ShouldRecurse(neighbor, visited, rec_stack)
        /\ IsBackEdge(neighbor, visited, rec_stack)
        /\ stack' = WithRest(Top.rest \ {neighbor})
        /\ IF ListIndex(path, neighbor) = 0
           THEN raised' = TRUE /\ cycles' = cycles
           ELSE raised' = FALSE /\ cycles' = Append(cycles, CycleFrom(path, neighbor))
    /\ UNCHANGED <<pc, graph, bvars, todo, visited, rec_stack, path, entered,
                   roots, dvars, rvars>>

\* neighbor is visited and not on the recursion stack: nothing happens
DfsSkip ==
    /\ pc = "dfs" /\ ~raised
    /\ \E neighbor \in Top.rest :
        /\ ~ShouldRecurse(neighbor, visited, rec_stack)
        /\ ~IsBackEdge(neighbor, visited, rec_stack)
        /\ stack' = WithRest(Top.rest \ {neighbor})
    /\ UNCHANGED <<pc, graph, raised, bvars, todo, visited, rec_stack, path,
                   cycles, entered, roots, dvars, rvars>>

\* the loop over the neighbors is over: `path.pop(); rec_stack.remove(node)`
\* (lines 132-133) and dfs returns to its caller
DfsReturn ==
    /\ pc = "dfs" /\ ~raised
    /\ Top.rest = {}
    /\ path' = SubSeq(path, 1, Len(path) - 1)
    /\ rec_stack' = RecStackLeave(rec_stack, Top.node)
    /\ stack' = SubSeq(stack, 1, Len(stack) - 1)
    /\ pc' = IF Len(stack) = 1 THEN "find" ELSE "dfs"
    /\ UNCHANGED <<graph, raised, bvars, todo, visited, cycles, entered, roots,
                   dvars, rvars>>

(***************************************************************************)
(* main: the dedup loop and the exit status                                *)
(***************************************************************************)
\* faulty variant: the cycle itself is the key of the seen set
Normalize_NoRotation(cycle) == cycle

\* faulty variant: the closing node is not appended again (a tuple of one node
\* has nothing to rotate)
Normalize_NoClosing(cycle) ==
    IF Len(cycle) < 2 THEN cycle
    ELSE LET min_idx == ListIndex(cycle, MinByStr(SubSeq(cycle, 1, Len(cycle) - 1)))
         IN SubSeq(cycle, min_idx, Len(cycle) - 1) \o SubSeq(cycle, 1, min_idx - 1)

\* faulty variant: the smallest node is moved to the front, the others keep
\* their order
Normalize_MinToFront(cycle) ==
    LET body == SubSeq(cycle, 1, Len(cycle) - 1)
        m == MinByStr(body)
        IsOther(x) == x # m
    IN <<m>> \o SelectSeq(body, IsOther) \o <<m>>

\* lines 169-170
Normalize(cycle) ==
    LET min_idx == ListIndex(cycle, MinByStr(SubSeq(cycle, 1, Len(cycle) - 1)))
    IN SubSeq(cycle, min_idx, Len(cycle) - 1)
         \o SubSeq(cycle, 1, min_idx - 1)
         \o <<cycle[min_idx]>>

\* faulty variant: the normalized form is kept, not the cycle as found
AppendUnique_Normalized(u, cycle, normalized) == Append(u, normalized)

\* `unique_cycles.append(cycle)` (line 173)
AppendUnique(u, cycle, normalized) == Append(u, cycle)

\* one iteration of `for cycle in cycles:` (lines 167-173)
DedupStep ==
    /\ pc = "dedup" /\ ~raised
    /\ di < Len(cycles)
    /\ LET cycle == cycles[di + 1]
           normalized == Normalize(cycle)
       IN IF normalized \notin seen
          THEN /\ seen' = seen \cup {normalized}
               /\ unique_cycles' = AppendUnique(unique_cycles, cycle, normalized)
          ELSE UNCHANGED <<seen, unique_cycles>>
    /\ di' = di + 1
    /\ UNCHANGED <<pc, graph, raised, bvars, fvars, exit_code, rvars>>

\* faulty variant: the number of cycles is the exit status
ExitStatus_Count(u) == Len(u)

\* faulty variant: the two statuses are swapped
ExitStatus_Swapped(u) == IF u # <<>> THEN 0 ELSE 1

\* `sys.exit(1 if unique_cycles else 0)` (line 204)
ExitStatus(u) == IF u # <<>> THEN 1 ELSE 0

Exit ==
    /\ pc = "dedup" /\ ~raised
    /\ di = Len(cycles)
    /\ exit_code' = ExitStatus(unique_cycles)
    /\ pc' = "done"
    /\ UNCHANGED <<graph, raised, bvars, fvars, unique_cycles, seen, di, rvars>>

\* The program is run again on the same input: the result of the first run
\* is kept for comparison, everything else starts afresh.
Rerun ==
    /\ pc = "done" /\ run = 1
    /\ run' = 2
    /\ first_result' = unique_cycles
    /\ first_roots' = roots
    /\ pc' = "find"
    /\ todo' = DOMAIN graph
    /\ visited' = {}
    /\ rec_stack' = {}
    /\ path' = <<>>
    /\ stack' = <<>>
    /\ cycles' = <<>>
    /\ entered' = [n \in DOMAIN entered |-> 0]
    /\ roots' = <<>>
    /\ unique_cycles' = <<>>
    /\ seen' = {}
    /\ di' = 0
    /\ exit_code' = -1
    /\ UNCHANGED <<graph, raised, bvars>>

(***************************************************************************)
(* Initial states                                                          *)
(***************************************************************************)
NoBuild ==
    /\ fs = <<>>
    /\ content = <<>>
    /\ root = <<>>
    /\ exts = <<>>
    /\ pending = {}
    /\ cur_file = <<>>
    /\ imports = <<>>
    /\ last_res = NoRes

NoFind ==
    /\ todo = {}
    /\ visited = {}
    /\ rec_stack = {}
    /\ path = <<>>
    /\ stack = <<>>
    /\ entered = <<>>
    /\ roots = <<>>

NoDedup ==
    /\ unique_cycles = <<>>
    /\ seen = {}
    /\ di = 0
    /\ exit_code = -1

FirstRun ==
    /\ run = 1
    /\ first_result = <<>>
    /\ first_roots = <<>>

\* find_cycles is called on graph g
FindInit(g) ==
    /\ pc = "find"
    /\ graph = g
    /\ raised = FALSE
    /\ NoBuild
    /\ todo = DOMAIN g
    /\ visited = {}
    /\ rec_stack = {}
    /\ path = <<>>
    /\ stack = <<>>
    /\ cycles = <<>>
    /\ entered = [n \in Nodes |-> 0]
    /\ roots = <<>>
    /\ NoDedup
    /\ FirstRun

\* Every graph of the bounds, every order of its keys and of each of its
\* neighbor sets.
Init == \E E \in EdgeSets(MaxEdges) : FindInit(GraphOf(E))

FindNext ==
    \/ OuterCall
    \/ OuterSkip
    \/ FindReturn
    \/ DfsRecurse
    \/ DfsBackEdge
    \/ DfsSkip
    \/ DfsReturn

Next ==
    \/ FindNext
    \/ DedupStep
    \/ Exit

Spec == Init /\ [][Next]_vars

\* find_cycles never waits: a step that is possible is taken
FairSpec == Init /\ [][Next]_vars /\ WF_vars(Next)

\* Two runs of the program on the same graph.
TwoRunNext ==
    \/ Next
    \/ Rerun

TwoRunSpec == Init /\ [][TwoRunNext]_vars

(***************************************************************************)
(* The dedup step alone, on every list of elementary cycles of the bounds. *)
(***************************************************************************)
IsElementaryCycle(c) ==
    /\ Len(c) >= 2
    /\ c[1] = c[Len(c)]
    /\ \A i, j \in 1..(Len(c) - 1) : i # j => c[i] # c[j]

\* the elementary cycles over a set of nodes
ElementaryCycles(S) ==
    {c \in UNION {[1..k -> S] : k \in 2..(Cardinality(S) + 1)} :
        IsElementaryCycle(c)}

\* the lists of at most n elementary cycles
CycleLists(n) == UNION {[1..k -> ElementaryCycles(Nodes)] : k \in 0..n}

DedupInit ==
    /\ pc = "dedup"
    /\ graph = EmptyGraph
    /\ raised = FALSE
    /\ NoBuild
    /\ NoFind
    /\ cycles \in CycleLists(MaxCycles)
    /\ NoDedup
    /\ FirstRun

DedupNext ==
    \/ DedupStep
    \/ Exit

DedupSpec == DedupInit /\ [][DedupNext]_vars

(***************************************************************************)
(* build_dependency_graph alone, on every project of the bounds: the       *)
(* project /p with the file /p/a.ts, whose imports are drawn from          *)
(* ImportStrings, and a filesystem that holds some of the places an import *)
(* of "utils" can resolve to.                                              *)
(***************************************************************************)
ProjectRoot == << <<"p">> >>

DefaultExts == <<"ts", "tsx", "js", "jsx">>

FileA == ProjectRoot \o << <<"a", ".", "ts">> >>

SrcDir == ProjectRoot \o << <<"src">> >>

Utils == ProjectRoot \o << <<"utils">> >>

UtilsExt(e) == ProjectRoot \o << <<"utils", ".", e>> >>

UtilsIndex(e) == Utils \o << <<"index", ".", e>> >>

SrcUtils == SrcDir \o << <<"utils", ".", "ts">> >>

OutsideUtils == << <<"utils", ".", "ts">> >>

\* "./utils", "../utils", "@/utils", "utils", "@org/utils"
ImportStrings ==
    { <<".", "/", "utils">>, <<".", ".", "/", "utils">>, <<"@", "/", "utils">>,
      <<"utils">>, <<"@", "org", "/", "utils">> }

Statements ==
    {[pat |-> "import_from", target |-> t] : t \in ImportStrings}
      \cup {[pat |-> "require", target |-> <<".", "/", "utils">>]}

\* the texts of at most n import statements
Texts(n) == UNION {[1..k -> Statements] : k \in 0..n}

FixedEntries == (<<>> :> "dir") @@ (ProjectRoot :> "dir") @@ (SrcDir :> "dir")
                  @@ (FileA :> "file")

OptionalEntries ==
    {Utils, SrcUtils, OutsideUtils}
      \cup {UtilsExt(e) : e \in {"ts", "tsx", "js", "jsx"}}
      \cup {UtilsIndex(e) : e \in {"ts", "tsx", "js"}}

\* an entry lies in a directory
WellFormed(f) ==
    \A p \in DOMAIN f : p = <<>> \/ (Parent(p) \in DOMAIN f /\ f[Parent(p)] = "dir")

\* the filesystems with at most n of the optional entries
Filesystems(n) ==
    {f \in UNION {{FixedEntries @@ k : k \in [S -> {"file", "dir"}]} :
                    S \in {T \in SUBSET OptionalEntries : Cardinality(T) <= n}} :
        WellFormed(f)}

BuildInit ==
    /\ pc = "scan"
    /\ graph = EmptyGraph
    /\ raised = FALSE
    /\ fs \in Filesystems(MaxEntries)
    /\ content \in {FileA :> t : t \in Texts(MaxImports)}
    /\ root = ProjectRoot
    /\ exts = DefaultExts
    /\ pending = FindFiles(fs, root, exts)
    /\ cur_file = <<>>
    /\ imports = <<>>
    /\ last_res = NoRes
    /\ NoFind
    /\ cycles = <<>>
    /\ NoDedup
    /\ FirstRun

BuildNext ==
    \/ BuildPick
    \/ BuildImport
    \/ BuildNextFile
    \/ BuildReturn

BuildSpec == BuildInit /\ [][BuildNext]_vars

(***************************************************************************)
(* build_dependency_graph on project trees with several files: under the   *)
(* root r the file a.ts, some of b.ts, c.ts and l.ts, and the directory    *)
(* dist with d.ts.                                                         *)
(***************************************************************************)
\* build_dependency_graph is called on filesystem f with the texts t, the
\* project root r and the extensions e
ProjectInit(f, t, r, e) ==
    /\ pc = "scan"
    /\ graph = EmptyGraph
    /\ raised = FALSE
    /\ fs = f
    /\ content = t
    /\ root = r
    /\ exts = e
    /\ pending = FindFiles(f, r, e)
    /\ cur_file = <<>>
    /\ imports = <<>>
    /\ last_res = NoRes
    /\ NoFind
    /\ cycles = <<>>
    /\ NoDedup
    /\ FirstRun

InTree(r, name) == Append(r, name)

TreeA(r) == InTree(r, <<"a", ".", "ts">>)

TreeB(r) == InTree(r, <<"b", ".", "ts">>)

TreeC(r) == InTree(r, <<"c", ".", "ts">>)

TreeL(r) == InTree(r, <<"l", ".", "ts">>)

TreeDist(r) == InTree(r, <<"dist">>)

TreeD(r) == InTree(TreeDist(r), <<"d", ".", "ts">>)

\* `import ... from "<target>"`
ImportOf(target) == [pat |-> "import_from", target |-> target]

\* the texts of at most n statements out of S
TextsOver(S, n) == UNION {[1..k -> S] : k \in 0..n}

\* the root, its ancestors and dist are directories, a.ts is a file
TreeBase(r) ==
    [p \in {SubSeq(r, 1, k) : k \in 0..Len(r)} \cup {TreeDist(r)} |-> "dir"]
      @@ (TreeA(r) :> "file")

\* an entry that is absent, or present as one of the kinds with one of the
\* texts
EntryOptions(p, kinds, texts) ==
    {[fs |-> <<>>, content |-> <<>>]}
      \cup {[fs |-> p :> k, content |-> p :> t] : k \in kinds, t \in texts}

\* /p, and a project below a directory named build
TreeRoots == {ProjectRoot, << <<"build">>, <<"p">> >>}

\* the default extensions, and an extension that is listed twice
TreeExts == {DefaultExts, <<"ts", "ts">>}

\* "./b", "./c", "@/c", "./dist"
TreeStatements ==
    {ImportOf(<<".", "/", "b">>), ImportOf(<<".", "/", "c">>),
     ImportOf(<<"@", "/", "c">>), ImportOf(<<".", "/", "dist">>)}

ImportsA == << ImportOf(<<".", "/", "a">>) >>

\* b.ts is a file that may be unreadable, c.ts a file without imports,
\* dist/d.ts a file that imports a.ts
TreeProjects(r, n) ==
    {[fs |-> TreeBase(r) @@ b.fs @@ c.fs @@ (TreeD(r) :> "file"),
      content |-> (TreeA(r) :> a) @@ b.content @@ c.content
                    @@ (TreeD(r) :> ImportsA)] :
        a \in TextsOver(TreeStatements, n),
        b \in EntryOptions(TreeB(r), {"file", "locked"}, {<<>>, ImportsA}),
        c \in EntryOptions(TreeC(r), {"file"}, {<<>>})}

TreeInit ==
    \E r \in TreeRoots, e \in TreeExts :
        \E pr \in TreeProjects(r, MaxStmts) : ProjectInit(pr.fs, pr.content, r, e)

TreeSpec == TreeInit /\ [][BuildNext]_vars

(***************************************************************************)
(* Projects with symbolic links: b.ts is a link to c.ts, l.ts a link to    *)
(* itself.                                                                 *)
(***************************************************************************)
\* "./b", "./b.ts", "./c", "./l.ts"
LinkStatements ==
    {ImportOf(<<".", "/", "b">>), ImportOf(<<".", "/", "b", ".", "ts">>),
     ImportOf(<<".", "/", "c">>), ImportOf(<<".", "/", "l", ".", "ts">>)}

LinkProjects(r, n) ==
    {[fs |-> TreeBase(r) @@ b.fs @@ c.fs @@ l.fs,
      content |-> (TreeA(r) :> a) @@ c.content] :
        a \in TextsOver(LinkStatements, n),
        b \in EntryOptions(TreeB(r), {"link"}, {<<>>}),
        c \in EntryOptions(TreeC(r), {"file"}, {<<>>, ImportsA}),
        l \in EntryOptions(TreeL(r), {"link"}, {<<>>})}

LinkInit ==
    \E pr \in LinkProjects(ProjectRoot, MaxStmts) :
        ProjectInit(pr.fs, pr.content, ProjectRoot, <<"ts">>)

LinkSpec == LinkInit /\ [][BuildNext]_vars

(***************************************************************************)
(* extract_imports on texts with statements of every pattern: a.ts with    *)
(* the four statements of TypeScript, m.py with the two of Python.         *)
(***************************************************************************)
\* import x from "./x"; import("./y"); require("./x"); export * from "./z"
TsStatements ==
    {[pat |-> "import_from", target |-> <<".", "/", "x">>],
     [pat |-> "dynamic_import", target |-> <<".", "/", "y">>],
     [pat |-> "require", target |-> <<".", "/", "x">>],
     [pat |-> "export_from", target |-> <<".", "/", "z">>]}

\* from os import path; import sys
PyStatements ==
    {[pat |-> "py_from", target |-> <<"os">>],
     [pat |-> "py_import", target |-> <<"sys">>]}

ModulePy == InTree(ProjectRoot, <<"m", ".", "py">>)

FileX == InTree(ProjectRoot, <<"x", ".", "ts">>)

ExtractFs ==
    (<<>> :> "dir") @@ (ProjectRoot :> "dir") @@ (FileA :> "file")
      @@ (ModulePy :> "file") @@ (FileX :> "file")

ExtractInit ==
    \E a \in TextsOver(TsStatements, MaxStmts), m \in TextsOver(PyStatements, MaxStmts) :
        ProjectInit(ExtractFs, (FileA :> a) @@ (ModulePy :> m) @@ (FileX :> <<>>),
                    ProjectRoot, <<"ts", "py">>)

ExtractSpec == ExtractInit /\ [][BuildNext]_vars

(***************************************************************************)
(* main from build_dependency_graph to sys.exit, on the projects /p with   *)
(* some of a.ts, b.ts and c.ts, each with at most one import of one of the *)
(* three; beside the root the file /o.ts, which imports itself, and in the *)
(* root the file y.js, which imports itself and has no eligible extension. *)
(***************************************************************************)
\* "./a", "./b", "./c"
PipeStatements ==
    {ImportOf(<<".", "/", "a">>), ImportOf(<<".", "/", "b">>),
     ImportOf(<<".", "/", "c">>)}

FileO == << <<"o", ".", "ts">> >>

FileY == InTree(ProjectRoot, <<"y", ".", "js">>)

PipeBase ==
    (<<>> :> "dir") @@ (ProjectRoot :> "dir") @@ (FileO :> "file")
      @@ (FileY :> "file")

PipeTexts ==
    (FileO :> << ImportOf(<<".", "/", "o">>) >>)
      @@ (FileY :> << ImportOf(<<".", "/", "y">>) >>)

PipeProjects(r) ==
    {[fs |-> PipeBase @@ a.fs @@ b.fs @@ c.fs,
      content |-> PipeTexts @@ a.content @@ b.content @@ c.content] :
        a \in EntryOptions(TreeA(r), {"file"}, TextsOver(PipeStatements, 1)),
        b \in EntryOptions(TreeB(r), {"file"}, TextsOver(PipeStatements, 1)),
        c \in EntryOptions(TreeC(r), {"file"}, TextsOver(PipeStatements, 1))}

PipeInit ==
    \E pr \in PipeProjects(ProjectRoot) :
        ProjectInit(pr.fs, pr.content, ProjectRoot, <<"ts">>)

PipeNext ==
    \/ BuildNext
    \/ Next

PipeSpec == PipeInit /\ [][PipeNext]_vars

(***************************************************************************)
(* Graph theory the claims are stated with.                                *)
(***************************************************************************)
RECURSIVE Closure(_, _)
Closure(g, S) ==
    LET T == S \cup UNION {Neighbors(g, n) : n \in S}
    IN IF T = S THEN S ELSE Closure(g, T)

\* the nodes reachable from n by a path of one or more edges
ReachPlus(g, n) == Closure(g, Neighbors(g, n))

HasCycle(g) == \E n \in Nodes : n \in ReachPlus(g, n)

\* the strongly-connected component of n
Component(g, n) ==
    {n} \cup {m \in Nodes : m \in ReachPlus(g, n) /\ n \in ReachPlus(g, m)}

HasSelfLoop(g, n) == n \in Neighbors(g, n)

\* find_cycles has returned
Returned == pc \in {"dedup", "done"}

NodeState(n) ==
    IF n \notin visited THEN "unvisited"
    ELSE IF n \in rec_stack THEN "active" ELSE "done"

(***************************************************************************)
(* Claims                                                                  *)
(***************************************************************************)
\* C1: on an acyclic graph (no directed cycle, no self-loop) find_cycles
\* raises nothing and its list of cycles is empty throughout, so it returns
\* an empty list, for every order of the keys and of the neighbor sets.
C1_AcyclicGivesNoCycle ==
    ~HasCycle(graph) => (~raised /\ cycles = <<>>)

\* an acyclic graph with a node that two edges lead to (so a neighbor is
\* met again when it is done) has been searched to the end
C1_Witness ==
    /\ Returned
    /\ ~HasCycle(graph)
    /\ cycles = <<>>
    /\ \E n \in Nodes : Cardinality({m \in DOMAIN graph : n \in graph[m]}) >= 2

\* C2: when find_cycles has returned, for every strongly-connected
\* component with more than one node or with a self-loop the list holds a
\* cycle whose nodes all lie in that component.
C2_EveryCyclicComponentReported ==
    Returned =>
        \A n \in Nodes :
            LET comp == Component(graph, n)
            IN (Cardinality(comp) > 1 \/ \E m \in comp : HasSelfLoop(graph, m))
                 => \E i \in 1..Len(cycles) : Range(cycles[i]) \subseteq comp

\* a component of two nodes entered from a node outside of it, and reported
C2_Witness ==
    /\ Returned
    /\ \E n \in Nodes :
        /\ Cardinality(Component(graph, n)) = 2
        /\ \E r \in Nodes \ Component(graph, n) : n \in ReachPlus(graph, r)
        /\ \E i \in 1..Len(cycles) : Range(cycles[i]) = Component(graph, n)
        /\ entered[n] = 1

Triangle == GraphOf({<<"A", "B">>, <<"B", "C">>, <<"C", "A">>})

\* C3: for the graph A->B, B->C, C->A, find_cycles and the dedup step end
\* with exactly one cycle, and its nodes are exactly A, B and C.
C3_TriangleOneCycle ==
    (graph = Triangle /\ pc = "done") =>
        /\ Len(unique_cycles) = 1
        /\ Range(unique_cycles[1]) = {"A", "B", "C"}

\* the traversal of the triangle that started at C
C3_Witness ==
    /\ graph = Triangle
    /\ pc = "done"
    /\ unique_cycles = << <<"C", "A", "B", "C">> >>

\* C4: when find_cycles has returned, the list holds [A, A] for every node
\* A with an edge to itself.
C4_SelfLoopReported ==
    Returned =>
        \A n \in Nodes :
            HasSelfLoop(graph, n) => \E i \in 1..Len(cycles) : cycles[i] = <<n, n>>

\* a self-loop found at a node that is not the root of the traversal
C4_Witness ==
    /\ pc = "dfs"
    /\ Len(path) >= 2
    /\ HasSelfLoop(graph, path[Len(path)])
    /\ \E i \in 1..Len(cycles) : cycles[i] = <<path[Len(path)], path[Len(path)]>>

\* C5: find_cycles returns on every graph; dfs is entered at most once per
\* node, and a node only goes from unvisited to active and from active to
\* done.
C5_TerminatesOncePerNode ==
    /\ <>Returned
    /\ [](\A n \in DOMAIN entered : entered[n] <= 1)
    /\ [][\A n \in Nodes :
            \/ NodeState(n)' = NodeState(n)
            \/ NodeState(n) = "unvisited" /\ NodeState(n)' = "active"
            \/ NodeState(n) = "active" /\ NodeState(n)' = "done"]_vars

\* a graph with a cycle and a self-loop searched to the end, every key entered
C5_Witness ==
    /\ Returned
    /\ \E n \in Nodes : HasSelfLoop(graph, n)
    /\ \E n \in Nodes : Cardinality(Component(graph, n)) > 1
    /\ \A n \in DOMAIN graph : entered[n] = 1 /\ NodeState(n) = "done"

\* C6: a second run of the program on the same graph, with the keys of the
\* dict in the same order and the neighbor sets iterated in any order, ends
\* with the same list of cycles as the first run.
C6_TwoRunsSameResult ==
    (run = 2 /\ pc = "done") => unique_cycles = first_result

\* the cycle without its closing node
Body(c) == SubSeq(c, 1, Len(c) - 1)

Rotate(b, k) == [i \in 1..Len(b) |-> b[((i - 1 + k) % Len(b)) + 1]]

\* c2 is c1 started at another of its nodes
IsRotation(c1, c2) ==
    /\ Len(c1) = Len(c2)
    /\ Len(c2) >= 2
    /\ c2[Len(c2)] = c2[1]
    /\ \E k \in 0..(Len(c1) - 2) : Body(c2) = Rotate(Body(c1), k)

\* C7: when the dedup loop is over, for any two cycles of its input that
\* are rotations of one another the seen set holds one normalized form and
\* the output holds one entry.
C7_RotationsDedupToOne ==
    pc = "done" =>
        \A i, j \in 1..Len(cycles) :
            (i < j /\ IsRotation(cycles[i], cycles[j])) =>
                /\ Cardinality({n \in seen : IsRotation(cycles[i], n)}) = 1
                /\ Cardinality({k \in 1..Len(unique_cycles) :
                                  IsRotation(cycles[i], unique_cycles[k])}) = 1

\* two different rotations of one cycle were the input, one is the output
C7_Witness ==
    /\ pc = "done"
    /\ Len(cycles) = 2
    /\ cycles[1] # cycles[2]
    /\ IsRotation(cycles[1], cycles[2])
    /\ unique_cycles = <<cycles[1]>>

\* C8: normalizing a normalized form the dedup loop computed gives that
\* form again.
C8_NormalizeIdempotent ==
    \A n \in seen : Normalize(n) = n

\* the self-loop [A, A] and a cycle that normalization rotates were processed
C8_Witness ==
    /\ <<"A", "A">> \in seen
    /\ \E i \in 1..di : Normalize(cycles[i]) # cycles[i] /\ Normalize(cycles[i]) \in seen

\* an import string with neither the relative marker nor the alias prefix
IsBare(imp) == imp # <<>> /\ imp[1] # "." /\ ~(Len(imp) >= 2 /\ imp[1] = "@" /\ imp[2] = "/")

\* C9: resolve_import returns None for an import string that starts neither
\* with "." nor with "@/", and the step of build_dependency_graph that
\* handles it leaves the graph as it is.
C9_BareImportAddsNothing ==
    /\ [](IsBare(last_res.imp) => last_res.res = None)
    /\ [][(pc = "imports" /\ imports # <<>> /\ IsBare(Head(imports)))
            => graph' = graph]_vars

\* /p/a.ts imported the bare "utils" while /p/utils.ts exists, and the build
\* is over: no edge
C9_Witness ==
    /\ pc = "find"
    /\ last_res = [imp |-> <<"utils">>, from |-> FileA, res |-> None]
    /\ IsFile(fs, UtilsExt("ts"))
    /\ graph = EmptyGraph

\* the candidates of a base path, in the order of the claim
WithSuffix(base, e) ==
    SubSeq(base, 1, Len(base) - 1) \o << base[Len(base)] \o <<".", e>> >>

IndexUnder(base, e) == base \o << <<"index", ".", e>> >>

CandidateOrder(base) ==
    << base, WithSuffix(base, "ts"), WithSuffix(base, "tsx"), WithSuffix(base, "js"),
       WithSuffix(base, "jsx"), IndexUnder(base, "ts"), IndexUnder(base, "tsx"),
       IndexUnder(base, "js") >>

\* C10: for a relative or aliased import resolve_import returns the first
\* of the candidates (bare path, .ts, .tsx, .js, .jsx, /index.ts,
\* /index.tsx, /index.js) that is a regular file, None exactly when none
\* is, and never a directory.
C10_FirstRegularFileWins ==
    (last_res.imp # <<>> /\ ~IsBare(last_res.imp)) =>
        LET cands == CandidateOrder(ResolvedBase(last_res.imp, last_res.from, root, fs))
            files == {i \in 1..Len(cands) : cands[i] \in DOMAIN fs /\ fs[cands[i]] = "file"}
        IN /\ (last_res.res = None) <=> (files = {})
           /\ files # {} =>
                \E i \in files : /\ last_res.res = cands[i]
                                 /\ \A j \in files : i <= j
           /\ last_res.res # None => fs[last_res.res] # "dir"

\* "./utils" with /p/utils a directory and /p/utils.js a file: the
\* directory is passed over and the later candidate is returned
C10_Witness ==
    /\ last_res.imp = <<".", "/", "utils">>
    /\ Exists(fs, Utils) /\ fs[Utils] = "dir"
    /\ IsFile(fs, UtilsExt("js"))
    /\ last_res.res = UtilsExt("js")

(***************************************************************************)
(* Claims about build_dependency_graph on project trees                    *)
(***************************************************************************)
\* build_dependency_graph has returned
Built == pc = "find"

\* the files the loop of line 93 does not skip
ScannedFiles == {y[2] : y \in {z \in FindFiles(fs, root, exts) : ~Excluded(z[2])}}

\* C11: in the graph build_dependency_graph returns, the target of every
\* edge is a key of the mapping.
C11_NoDanglingEdges ==
    Built => \A a \in DOMAIN graph : graph[a] \subseteq DOMAIN graph

\* C12: every file build_dependency_graph scans is a key of the graph it
\* returns, with or without an import that resolves, so the number of keys
\* is the number of scanned files.
C12_EveryScannedFileIsKey ==
    Built =>
        /\ ScannedFiles \subseteq DOMAIN graph
        /\ Cardinality(DOMAIN graph) = Cardinality(ScannedFiles)

\* two paths name the same file
SameFile(p, q) ==
    /\ ~ResolveLoops(fs, p)
    /\ ~ResolveLoops(fs, q)
    /\ Walk(fs, <<>>, p, {}) = Walk(fs, <<>>, q, {})

\* C13: in the graph build_dependency_graph returns, two nodes (keys or
\* edge targets) that name the same file are the same node.
C13_OneNodePerFile ==
    Built => \A n1, n2 \in NodesOf(graph) : SameFile(n1, n2) => n1 = n2

\* a directory between the project root r and the file p has an excluded
\* name
ExcludedBelowRoot(p, r) ==
    \E i \in (Len(r) + 1)..(Len(p) - 1) : p[i] \in ExcludedNames

\* C14: a file under the project root with an eligible extension is
\* scanned if and only if no directory between the root and the file has
\* an excluded name, whatever the directories above the root are called.
C14_ScannedIffNotExcludedBelowRoot ==
    [][\A y \in pending \ pending' :
          (pc' = "imports" /\ cur_file' = y[2]) <=> ~ExcludedBelowRoot(y[2], root)]_vars

\* the targets of the statements of a text, in the order of the text
TextOrder(text) == [i \in 1..Len(text) |-> text[i].target]

\* C15: extract_imports returns the targets of the import statements of a
\* file in the order in which they stand in the text, duplicates kept,
\* also when the statements are matched by different patterns.
C15_EncounterOrder ==
    [][(pc = "scan" /\ pc' = "imports")
          => imports' = TextOrder(content[cur_file'])]_vars

\* the texts with the text of every unreadable file replaced by one
\* without imports
Emptied(f, texts) ==
    [p \in DOMAIN texts |-> IF Readable(f, p) THEN texts[p] ELSE <<>>]

\* the files the imports of file p resolve to
Contribution(f, texts, r, p) ==
    LET imps == ExtractImports(f, texts, p, LangOf(SuffixOf(p)))
    IN {ResolveImport(imps[i], p, r, f) : i \in 1..Len(imps)} \ {None}

\* the graph as the union of what each scanned file contributes, without
\* an order of the files
ExpectedGraph(f, texts, r, e) ==
    LET scanned == {y[2] : y \in {z \in FindFiles(f, r, e) : ~Excluded(z[2])}}
    IN [p \in {q \in scanned : Contribution(f, texts, r, q) # {}} |->
          Contribution(f, texts, r, p)]

C17_ResolveFailureNotFatal ==
    [][(/\ pc = "imports"
        /\ imports # <<>>
        /\ ResolveImportLoops(Head(imports), cur_file, root, fs))
          => (~raised' /\ graph' = graph)]_vars

\* none of the candidates of an import is a regular file
NoCandidate(imp, from) ==
    LET cands == CandidateOrder(ResolvedBase(imp, from, root, fs))
    IN \A i \in 1..Len(cands) :
         ~(cands[i] \in DOMAIN fs /\ fs[cands[i]] \in {"file", "locked"})

\* C18: a relative or aliased import none of whose candidates is a regular
\* file resolves to None; the step leaves the graph as it is and raises
\* nothing, and when the imports of a file are done its edges are the
\* targets of the imports that do resolve.
C18_UnresolvedImportDropped ==
    /\ [][(/\ pc = "imports"
            /\ imports # <<>>
            /\ ~IsBare(Head(imports))
            /\ NoCandidate(Head(imports), cur_file))
              => (graph' = graph /\ ~raised' /\ last_res'.res = None)]_vars
    /\ []((pc = "imports" /\ imports = <<>>)
            => Neighbors(graph, cur_file) = Contribution(fs, content, root, cur_file))

\* a.ts imports "./b", which does not exist, and then "./c": the only edge
\* is a.ts -> c.ts
C18_Witness ==
    /\ pc = "imports" /\ imports = <<>>
    /\ cur_file = TreeA(root)
    /\ content[cur_file] = <<ImportOf(<<".", "/", "b">>), ImportOf(<<".", "/", "c">>)>>
    /\ TreeB(root) \notin DOMAIN fs
    /\ last_res.res = TreeC(root)
    /\ graph = (TreeA(root) :> {TreeC(root)})

\* C19: in the graph build_dependency_graph returns, the imports of a file
\* that resolve to the same file make one edge: no two targets of a key
\* name the same file.
C19_OneEdgePerTargetFile ==
    Built =>
        \A a \in DOMAIN graph :
            \A t1, t2 \in graph[a] : SameFile(t1, t2) => t1 = t2

\* C20: the graph build_dependency_graph returns is the union of what the
\* scanned files contribute, whatever the order in which they were
\* processed and however often each was processed.
C20_GraphIndependentOfOrder ==
    Built => graph = ExpectedGraph(fs, content, root, exts)

\* every file was processed twice, b.ts last; a.ts has two edges and b.ts
\* one
C20_Witness ==
    /\ Built
    /\ exts = <<"ts", "ts">>
    /\ cur_file = TreeB(root)
    /\ graph = (TreeA(root) :> {TreeB(root), TreeC(root)})
                 @@ (TreeB(root) :> {TreeA(root)})

(***************************************************************************)
(* Claims about find_cycles, the dedup step and the whole run              *)
(***************************************************************************)
\* C21: no step of find_cycles or of the dedup step changes the graph: its
\* keys and the neighbor set of every key stay as build_dependency_graph
\* left them, also when a node that is only an edge target is visited.
C21_GraphUnchanged ==
    [][graph' = graph]_vars

\* the run is over, a node that is no key was visited and a cycle was found
C21_Witness ==
    /\ pc = "done"
    /\ cycles # <<>>
    /\ \E n \in Nodes : n \notin DOMAIN graph /\ n \in visited

\* a imports ./b, b imports ./c, c imports ./a
IsTriangleProject ==
    /\ {TreeA(root), TreeB(root), TreeC(root)} \subseteq DOMAIN fs
    /\ content[TreeA(root)] = << ImportOf(<<".", "/", "b">>) >>
    /\ content[TreeB(root)] = << ImportOf(<<".", "/", "c">>) >>
    /\ content[TreeC(root)] = << ImportOf(<<".", "/", "a">>) >>

\* C22: for the project where a imports ./b, b imports ./c and c imports
\* ./a the run ends with exactly one cycle, over the three files, and with
\* exit status 1.
C22_EndToEndTriangle ==
    (IsTriangleProject /\ pc = "done") =>
        /\ ~raised
        /\ Len(unique_cycles) = 1
        /\ Len(unique_cycles[1]) = 4
        /\ Range(unique_cycles[1]) = {TreeA(root), TreeB(root), TreeC(root)}
        /\ exit_code = 1

\* the run on the triangle project in which b.ts was the first key
C22_Witness ==
    /\ IsTriangleProject
    /\ pc = "done"
    /\ unique_cycles = << <<TreeB(root), TreeC(root), TreeA(root), TreeB(root)>> >>
    /\ exit_code = 1

\* C23: the run ends with exit status 0 exactly when the deduplicated list
\* is empty and with 1 exactly when it is not; the status is 0 if and only
\* if the graph is acyclic.
C23_ExitStatus ==
    pc = "done" =>
        /\ exit_code = 0 <=> unique_cycles = <<>>
        /\ exit_code = 1 <=> unique_cycles # <<>>
        /\ exit_code = 0 <=> ~HasCycle(graph)

\* a run that found two cycles
C23_Witness ==
    /\ pc = "done"
    /\ Len(unique_cycles) = 2
    /\ exit_code = 1

\* no entry below the root has one of the extensions
NoEligibleFile ==
    \A p \in DOMAIN fs :
        (Len(p) > Len(root) /\ SubSeq(p, 1, Len(root)) = root) =>
            \A i \in 1..Len(exts) : ~EndsWith(p[Len(p)], <<".", exts[i]>>)

\* C24: when no eligible file exists under the root nothing is raised,
\* the graph and the lists of cycles stay empty, and the run ends with
\* exit status 0.
C24_EmptyProject ==
    NoEligibleFile =>
        /\ ~raised
        /\ graph = EmptyGraph
        /\ cycles = <<>>
        /\ unique_cycles = <<>>
        /\ pc = "done" => exit_code = 0

\* the run on the project that holds only y.js is over
C24_Witness ==
    /\ NoEligibleFile
    /\ FileY \in DOMAIN fs
    /\ pc = "done"
    /\ exit_code = 0

\* each consecutive pair of a sequence of nodes is an edge of the graph
IsPathOf(g, c) == \A i \in 1..(Len(c) - 1) : c[i + 1] \in Neighbors(g, c[i])

\* C25: every cycle find_cycles records has at least two entries, ends
\* with the node it starts with, repeats no other node, and each
\* consecutive pair of its entries is an edge; when it is recorded it is
\* the part of the path from some node to the current node, with that
\* node appended.
C25_CyclesAreClosedPaths ==
    /\ [](\A i \in 1..Len(cycles) :
            IsElementaryCycle(cycles[i]) /\ IsPathOf(graph, cycles[i]))
    /\ [][Len(cycles') = Len(cycles) + 1 =>
            LET c == cycles'[Len(cycles')]
            IN /\ path # <<>>
               /\ path[Len(path)] = Top.node
               /\ \E k \in 1..Len(path) :
                    c = SubSeq(path, k, Len(path)) \o <<path[k]>>]_vars

\* a cycle of two nodes was found that does not start at the first key
C25_Witness ==
    /\ Returned
    /\ \E i \in 1..Len(cycles) : Len(cycles[i]) = 3 /\ cycles[i][1] # roots[1]

\* C26: the normalized form of a cycle find_cycles produced is a rotation
\* of the cycle of the same length that starts and ends at the smallest
\* node of the cycle and is a closed path of the graph.
C26_NormalizedIsRotation ==
    \A i \in 1..di :
        LET c == cycles[i]
            n == Normalize(c)
        IN /\ IsRotation(c, n)
           /\ Len(n) = Len(c)
           /\ n[1] = n[Len(n)]
           /\ \A j \in 1..Len(c) : StrKey(n[1]) <= StrKey(c[j])
           /\ IsPathOf(graph, n)
           /\ n \in seen

\* a cycle of three nodes that does not start at its smallest node was
\* normalized
C26_Witness ==
    \E i \in 1..di :
        /\ Len(cycles[i]) = 4
        /\ StrKey(cycles[i][1]) > StrKey(cycles[i][3])
        /\ Normalize(cycles[i]) \in seen

RECURSIVE FirstOfEachForm(_, _)
\* the cycles of cs from the i-th on whose normalized form no earlier
\* cycle of cs has
FirstOfEachForm(cs, i) ==
    IF i > Len(cs) THEN <<>>
    ELSE IF \E j \in 1..(i - 1) : Normalize(cs[j]) = Normalize(cs[i])
         THEN FirstOfEachForm(cs, i + 1)
         ELSE <<cs[i]>> \o FirstOfEachForm(cs, i + 1)

\* C27: the dedup loop outputs, in the order of its input, the first input
\* cycle of each normalized form, as it was found; its output is a fixed
\* point of the dedup.
C27_FirstOfEachFormKept ==
    pc = "done" =>
        /\ unique_cycles = FirstOfEachForm(cycles, 1)
        /\ FirstOfEachForm(unique_cycles, 1) = unique_cycles

\* of two rotations of one cycle the first, which is not the normalized
\* form, is the output
C27_Witness ==
    /\ pc = "done"
    /\ Len(cycles) = 2
    /\ cycles[1] # cycles[2]
    /\ Normalize(cycles[1]) = Normalize(cycles[2])
    /\ Normalize(cycles[1]) # cycles[1]
    /\ unique_cycles = <<cycles[1]>>

C29_TraversalStateConsistent ==
    /\ rec_stack = Range(path)
    /\ \A i, j \in 1..Len(path) : i # j => path[i] # path[j]
    /\ Range(path) \subseteq visited
    /\ IsPathOf(graph, path)
    /\ Returned =>
          /\ path = <<>>
          /\ rec_stack = {}
          /\ visited = NodesOf(graph)

\* three nodes are on the path and a fourth one is done
C29_Witness ==
    /\ pc = "dfs"
    /\ Len(path) = 3
    /\ \E n \in visited : n \notin rec_stack

\* C30: every node of a cycle find_cycles returned is a key of the graph:
\* a file below the project root with an import that resolved.
C30_CycleNodesAreKeys ==
    Returned =>
        \A i \in 1..Len(cycles) : \A k \in 1..Len(cycles[i]) :
            LET n == cycles[i][k]
            IN /\ n \in DOMAIN graph
               /\ graph[n] # {}
               /\ Len(n) > Len(root) /\ SubSeq(n, 1, Len(root)) = root

\* a cycle was found in a graph that has a node which is only an edge
\* target
C30_Witness ==
    /\ Returned
    /\ cycles # <<>>
    /\ NodesOf(graph) \ DOMAIN graph # {}

====
